---- MODULE Spec2Model ----
(***************************************************************************)
(* The per-request authorization lifecycle of the 3scale proxy-wasm filter *)
(* (src/proxy/http_context.rs): the header handler, the call-response      *)
(* handler and the response-header handler of HttpAuthThreescale, run by a *)
(* single-threaded host that owns the correlation tokens.                  *)
(***************************************************************************)
EXTENDS Integers, Sequences, FiniteSets, TLC

\* Number of HttpAuthThreescale contexts (inbound requests) alive at once.
NumContexts == 2

\* Most call-response events one context is handed when the host repeats
\* deliveries (SpecRedelivery only; the host of Spec delivers at most one).
MaxCallResponses == 2

\* Longest authority (host name) handed to Service::match_authority.
MaxAuthorityLen == 3

Contexts == 1..NumContexts

\* Option<T> as a sequence of at most one element.
None == <<>>

Some(x) == <<x>>

\* Option::unwrap_or
unwrap_or(opt, default) == IF opt = None THEN default ELSE opt[1]

(***************************************************************************)
(* Configuration snapshot: optional backend, optional passthrough flag.    *)
(***************************************************************************)
Upstreams == { [name |-> "outbound|443||su1.3scale.net",
                url |-> "https://su1.3scale.net",
                timeout |-> 5000] }

Configurations ==
    [backend : {None} \cup {Some(u) : u \in Upstreams},
     passthrough_metadata : {None, Some(TRUE), Some(FALSE)}]

(***************************************************************************)
(* What authrep::authrep resolves for a request: Err, or Ok(AuthRep) with  *)
(* the applications, the service (id, optional token) and the usages.      *)
(***************************************************************************)
AppIdNoKey == [kind |-> "AppId", id |-> "app1", key |-> None]

AppIdWithKey == [kind |-> "AppId", id |-> "app1", key |-> Some("key1")]

UserKeyApp == [kind |-> "UserKey", id |-> "uk1", key |-> None]

OAuthTokenApp == [kind |-> "OAuthToken", id |-> "tok1", key |-> None]

AppLists ==
    { <<>>, <<AppIdNoKey>>, <<AppIdWithKey>>, <<UserKeyApp>>, <<OAuthTokenApp>>,
      <<UserKeyApp, OAuthTokenApp>>, <<OAuthTokenApp, AppIdWithKey>> }

Services == { [id |-> "svc1", token |-> None],
              [id |-> "svc1", token |-> Some("secret1")] }

\* usages: metric/delta pairs; encodable = serde_json::to_string succeeds on it
UsagesValues == { [entries |-> <<>>, encodable |-> TRUE],
                  [entries |-> << <<"hits", 1>> >>, encodable |-> TRUE],
                  [entries |-> << <<"hits", 1>> >>, encodable |-> FALSE] }

AuthReps == [apps : AppLists, service : Services, usages : UsagesValues]

NoAuthRep == [apps |-> <<>>, service |-> [id |-> "", token |-> None],
              usages |-> [entries |-> <<>>, encodable |-> TRUE]]

\* Result<AuthRep, Error>
AuthRepResults == { [ok |-> TRUE, ar |-> a] : a \in AuthReps }
                    \cup { [ok |-> FALSE, ar |-> NoAuthRep] }

(***************************************************************************)
(* Headers of a backend response as the host hands them to the filter.     *)
(***************************************************************************)
ResponseHeaderLists ==
    { <<>>,
      << <<":status", "200">> >>,
      << <<":status", "403">> >>,
      << <<"server", "200">> >>,
      << <<"server", "envoy">>, <<":status", "200">> >>,
      << <<":status", "503">>, <<":status", "200">> >>,
      << <<":Status", "200">> >> }

VARIABLES
    configuration,     \* HttpAuthThreescale.configuration (shared snapshot)
    headers_status,    \* per context: what on_http_request_headers returned
    branch,            \* per context: the return site of on_http_request_headers
    local_responses,   \* per context: send_http_response calls, in order
    resumed,           \* per context: number of resume_http_request calls
    request_headers,   \* per context: add_http_request_header calls, in order
    response_marker,   \* per context: on_http_response_headers runs, in order
    upstream_calls,    \* per context: number of upstream.call invocations
    call_token,        \* per context: Option of the token upstream.call returned
    call_responses,    \* per context: number of on_http_call_response events
    callouts,          \* host: pending calls, as <<token, context>> pairs
    next_token,        \* host: next correlation token to hand out
    last,              \* the event the host dispatched last, with its inputs
    service_json,      \* a service entry of the configuration, as written
    loaded_service,    \* Option of the Service deserialized from it
    service_call       \* the last call on the Service, with its result

lifecycle_vars ==
    << configuration, headers_status, branch, local_responses, resumed,
       request_headers, response_marker, upstream_calls, call_token,
       call_responses, callouts, next_token, last >>

service_vars == << service_json, loaded_service, service_call >>

vars == << lifecycle_vars, service_vars >>

(***************************************************************************)
(* Conversions used when the passthrough metadata is attached.             *)
(***************************************************************************)
Digit(d) ==
    CASE d = 0 -> "0" [] d = 1 -> "1" [] d = 2 -> "2" [] d = 3 -> "3"
      [] d = 4 -> "4" [] d = 5 -> "5" [] d = 6 -> "6" [] d = 7 -> "7"
      [] d = 8 -> "8" [] d = 9 -> "9"

RECURSIVE to_string(_)
\* u64::to_string: the decimal digits, most significant first
to_string(n) ==
    IF n < 10 THEN Digit(n) ELSE to_string(n \div 10) \o Digit(n % 10)

RECURSIVE JsonMembers(_)
JsonMembers(entries) ==
    IF entries = <<>> THEN ""
    ELSE "\"" \o entries[1][1] \o "\":" \o to_string(entries[1][2])
         \o (IF Len(entries) > 1 THEN "," \o JsonMembers(Tail(entries)) ELSE "")

\* serde_json::to_string(&usages): Some(text) or None on an encoding error
serde_json_to_string(usages) ==
    IF usages.encodable THEN Some("{" \o JsonMembers(usages.entries) \o "}")
    ELSE None

\* IdentityHeader leaving the application key out of the app-id value
IdentityHeader_DropsKey(app) ==
    CASE app.kind = "AppId" -> Some(<< "x-3scale-app-id", app.id >>)
      [] app.kind = "UserKey" -> Some(<< "x-3scale-user-key", app.id >>)
      [] app.kind = "OAuthToken" -> None

\* IdentityHeader with the OAuthToken arm emitting a header instead of bailing
IdentityHeader_OAuth(app) ==
    CASE app.kind = "AppId" ->
           Some(<< "x-3scale-app-id",
                   app.id \o (IF app.key # None THEN ":" \o app.key[1] ELSE "") >>)
      [] app.kind = "UserKey" -> Some(<< "x-3scale-user-key", app.id >>)
      [] app.kind = "OAuthToken" -> Some(<< "x-3scale-access-token", app.id >>)

\* the (header, value) pair chosen by the match on apps[0]; None for OAuthToken
IdentityHeader(app) ==
    CASE app.kind = "AppId" ->
           Some(<< "x-3scale-app-id",
                   app.id \o (IF app.key # None THEN ":" \o app.key[1] ELSE "") >>)
      [] app.kind = "UserKey" -> Some(<< "x-3scale-user-key", app.id >>)
      [] app.kind = "OAuthToken" -> None

\* Result<(), Error> of threescale_info_to_metadata together with the
\* add_http_request_header calls it made before returning.
threescale_info_to_metadata(cfg, ar) ==
    LET apps == ar.apps
        service == ar.service
        usages == ar.usages
        backend == cfg.backend
    IN  IF apps = <<>> THEN [ok |-> FALSE, added |-> <<>>]
        ELSE IF backend = None THEN [ok |-> FALSE, added |-> <<>>]
        ELSE LET upstream == backend[1]
                 identity == IdentityHeader(apps[1])
             IN  IF identity = None THEN [ok |-> FALSE, added |-> <<>>]
                 ELSE LET info == << identity[1],
                                     << "x-3scale-cluster-name", upstream.name >>,
                                     << "x-3scale-upstream-url", upstream.url >>,
                                     << "x-3scale-timeout", to_string(upstream.timeout) >>,
                                     << "x-3scale-service-id", service.id >> >>
                      IN  IF service.token = None
                          THEN [ok |-> FALSE, added |-> info]
                          ELSE LET with_token ==
                                       Append(info, << "x-3scale-service-token",
                                                       service.token[1] >>)
                                   json == serde_json_to_string(usages)
                               IN  IF json = None
                                   THEN [ok |-> FALSE, added |-> with_token]
                                   ELSE [ok |-> TRUE,
                                         added |-> Append(with_token,
                                                     << "x-3scale-usages", json[1] >>)]

(***************************************************************************)
(* on_http_request_headers, one operator per return site.  An outcome      *)
(* names the site, the status returned, the send_http_response and         *)
(* add_http_request_header calls made, the number of upstream.call         *)
(* invocations and the token obtained.                                     *)
(***************************************************************************)
\* AuthrepError letting the request through, as the handler once did for a
\* configuration error
AuthrepError_Continue ==
    [branch |-> "authrep_err", ret |-> "Continue", sent |-> <<>>,
     added |-> <<>>, calls |-> 0, token |-> None]

AuthrepError ==
    [branch |-> "authrep_err", ret |-> "StopIteration",
     sent |-> << [status |-> 403, headers |-> <<>>, body |-> "Access forbidden.\n"] >>,
     added |-> <<>>, calls |-> 0, token |-> None]

\* Passthrough logging a metadata failure and letting the request continue
Passthrough_ErrorContinues(cfg, ar) ==
    LET md == threescale_info_to_metadata(cfg, ar)
    IN  IF md.ok
        THEN [branch |-> "metadata_ok", ret |-> "Continue", sent |-> <<>>,
              added |-> md.added, calls |-> 0, token |-> None]
        ELSE [branch |-> "metadata_err", ret |-> "Continue", sent |-> <<>>,
              added |-> md.added, calls |-> 0, token |-> None]

\* Passthrough answering a metadata failure with the error text
Passthrough_LeaksError(cfg, ar) ==
    LET md == threescale_info_to_metadata(cfg, ar)
    IN  IF md.ok
        THEN [branch |-> "metadata_ok", ret |-> "Continue", sent |-> <<>>,
              added |-> md.added, calls |-> 0, token |-> None]
        ELSE [branch |-> "metadata_err", ret |-> "StopIteration",
              sent |-> << [status |-> 403, headers |-> <<>>,
                           body |-> "failed to pass app info to next filter" ] >>,
              added |-> md.added, calls |-> 0, token |-> None]

Passthrough(cfg, ar) ==
    LET md == threescale_info_to_metadata(cfg, ar)
    IN  IF md.ok
        THEN [branch |-> "metadata_ok", ret |-> "Continue", sent |-> <<>>,
              added |-> md.added, calls |-> 0, token |-> None]
        ELSE [branch |-> "metadata_err", ret |-> "StopIteration",
              sent |-> << [status |-> 403, headers |-> <<>>,
                           body |-> "Access forbidden.\n"] >>,
              added |-> md.added, calls |-> 0, token |-> None]

\* BuildCallError returning Continue without a response
BuildCallError_Continue ==
    [branch |-> "build_err", ret |-> "Continue", sent |-> <<>>,
     added |-> <<>>, calls |-> 0, token |-> None]

BuildCallError ==
    [branch |-> "build_err", ret |-> "StopIteration",
     sent |-> << [status |-> 403, headers |-> <<>>, body |-> "Access forbidden.\n"] >>,
     added |-> <<>>, calls |-> 0, token |-> None]

\* Dispatch falling through to the rejection after a successful call
Dispatch_AlsoRejects(call_res) ==
    [branch |-> IF call_res # None THEN "dispatched" ELSE "dispatch_err",
     ret |-> "StopIteration",
     sent |-> << [status |-> 403, headers |-> <<>>, body |-> "Access forbidden.\n"] >>,
     added |-> <<>>, calls |-> 1, token |-> call_res]

\* Dispatch trying upstream.call a second time when the first returns Err
Dispatch_Retry(call_res) ==
    IF call_res # None
    THEN [branch |-> "dispatched", ret |-> "StopIteration", sent |-> <<>>,
          added |-> <<>>, calls |-> 1, token |-> call_res]
    ELSE [branch |-> "dispatch_err", ret |-> "StopIteration",
          sent |-> << [status |-> 403, headers |-> <<>>,
                       body |-> "Access forbidden.\n"] >>,
          added |-> <<>>, calls |-> 2, token |-> None]

\* Dispatch leaving the request held, without a response, on Err
Dispatch_NoReject(call_res) ==
    IF call_res # None
    THEN [branch |-> "dispatched", ret |-> "StopIteration", sent |-> <<>>,
          added |-> <<>>, calls |-> 1, token |-> call_res]
    ELSE [branch |-> "dispatch_err", ret |-> "StopIteration", sent |-> <<>>,
          added |-> <<>>, calls |-> 1, token |-> None]

\* upstream.call returned call_res: Some(token) or None for Err
Dispatch(call_res) ==
    IF call_res # None
    THEN [branch |-> "dispatched", ret |-> "StopIteration", sent |-> <<>>,
          added |-> <<>>, calls |-> 1, token |-> call_res]
    ELSE [branch |-> "dispatch_err", ret |-> "StopIteration",
          sent |-> << [status |-> 403, headers |-> <<>>,
                       body |-> "Access forbidden.\n"] >>,
          added |-> <<>>, calls |-> 1, token |-> None]

\* NoBackend letting the request through
NoBackend_Continue ==
    [branch |-> "no_backend", ret |-> "Continue", sent |-> <<>>,
     added |-> <<>>, calls |-> 0, token |-> None]

NoBackend ==
    [branch |-> "no_backend", ret |-> "StopIteration",
     sent |-> << [status |-> 403, headers |-> <<>>, body |-> "Access forbidden.\n"] >>,
     added |-> <<>>, calls |-> 0, token |-> None]

\* on_http_request_headers testing the backend before the passthrough flag
on_http_request_headers_BackendFirst(cfg, ar_res, build_ok, call_res) ==
    LET backend == cfg.backend
    IN  IF ~ar_res.ok THEN AuthrepError
        ELSE IF backend # None
             THEN IF build_ok THEN Dispatch(call_res) ELSE BuildCallError
        ELSE IF unwrap_or(cfg.passthrough_metadata, FALSE)
             THEN Passthrough(cfg, ar_res.ar)
        ELSE NoBackend

on_http_request_headers(cfg, ar_res, build_ok, call_res) ==
    LET backend == cfg.backend
    IN  IF ~ar_res.ok THEN AuthrepError
        ELSE IF unwrap_or(cfg.passthrough_metadata, FALSE)
             THEN Passthrough(cfg, ar_res.ar)
        ELSE IF backend # None
             THEN IF build_ok THEN Dispatch(call_res) ELSE BuildCallError
        ELSE NoBackend

(***************************************************************************)
(* on_http_call_response                                                   *)
(***************************************************************************)
RECURSIVE find_status_Last(_)
\* find_status keeping the last `:status` header instead of the first
find_status_Last(headers) ==
    IF headers = <<>> THEN None
    ELSE IF headers[Len(headers)][1] = ":status" THEN Some(headers[Len(headers)])
    ELSE find_status_Last(SubSeq(headers, 1, Len(headers) - 1))

RECURSIVE find_status(_)
\* .into_iter().find(|(key, _)| key == ":status"): the first such header
find_status(headers) ==
    IF headers = <<>> THEN None
    ELSE IF headers[1][1] = ":status" THEN Some(headers[1])
    ELSE find_status(Tail(headers))

\* .map_or(false, |(_, value)| value == "200")
authorized(headers) ==
    LET found == find_status(headers)
    IN  IF found = None THEN FALSE ELSE found[1][2] = "200"

\* on_http_call_response that only logs a response that is not a 200
on_http_call_response_SilentOnReject(self, token_id, headers) ==
    [context |-> self,
     resumes |-> IF authorized(headers) THEN 1 ELSE 0,
     sent |-> <<>>]

\* on_http_call_response without the else: the 403 is sent in both cases
on_http_call_response_NoElse(self, token_id, headers) ==
    [context |-> self,
     resumes |-> IF authorized(headers) THEN 1 ELSE 0,
     sent |-> << [status |-> 403, headers |-> <<>>,
                  body |-> "Access forbidden.\n"] >>]

\* on_http_call_response acting on the context the token numbers, not on self
on_http_call_response_ByToken(self, token_id, headers) ==
    IF authorized(headers)
    THEN [context |-> token_id, resumes |-> 1, sent |-> <<>>]
    ELSE [context |-> token_id, resumes |-> 0,
          sent |-> << [status |-> 403, headers |-> <<>>,
                       body |-> "Access forbidden.\n"] >>]

\* the context acted on and the calls made on it
on_http_call_response(self, token_id, headers) ==
    IF authorized(headers)
    THEN [context |-> self, resumes |-> 1, sent |-> <<>>]
    ELSE [context |-> self, resumes |-> 0,
          sent |-> << [status |-> 403, headers |-> <<>>,
                       body |-> "Access forbidden.\n"] >>]

\* on_http_response_headers setting another header than the marker
on_http_response_headers_OtherHeader ==
    [set |-> << "Server", Some("3scale") >>, ret |-> "Continue"]

\* on_http_response_headers: the set_http_response_header call it makes and
\* the status it returns
on_http_response_headers ==
    [set |-> << "Powered-By", Some("3scale") >>, ret |-> "Continue"]

(***************************************************************************)
(* threescale/service.rs: the Service entry of the configuration, its      *)
(* environment and its authorities.  Host names and glob patterns are      *)
(* sequences of characters; "*" in a pattern is the wildcard.              *)
(***************************************************************************)
\* values the `environment` field of an entry may be written with
EnvironmentNames ==
    {"production", "staging", "sandbox", "unknown", "Production", "development"}

GlobPatterns ==
    { << "*", ".", "a" >>, << "a" >>, << "a", "*" >>, << "b", ".", "a" >> }

RECURSIVE TextsOfLen(_)
TextsOfLen(n) ==
    IF n = 0 THEN { <<>> }
    ELSE { Append(t, ch) : t \in TextsOfLen(n - 1), ch \in {"a", "."} }

AuthorityTexts == UNION { TextsOfLen(n) : n \in 0..MaxAuthorityLen }

\* a service entry as written: both fields may be missing
ServiceJsons ==
    [environment : {None} \cup { Some(n) : n \in EnvironmentNames },
     authorities : {None} \cup { Some(ps) : ps \in SUBSET GlobPatterns }]

NoServiceJson == [environment |-> None, authorities |-> None]

NoServiceCall ==
    [call |-> "none", authority |-> <<>>, matched |-> FALSE, text |-> ""]

\* Deserialize for Environment: snake_case variant names, any other string
\* is the #[serde(other)] variant
Environment_deserialize(name) ==
    CASE name = "production" -> "Production"
      [] name = "staging" -> "Staging"
      [] name = "sandbox" -> "Sandbox"
      [] OTHER -> "Unknown"

Environment_as_str(env) ==
    CASE env = "Production" -> "production"
      [] env = "Staging" -> "staging"
      [] env = "Sandbox" -> "sandbox"
      [] env = "Unknown" -> "unknown"

\* Environment::default with the catch-all variant as the default
Environment_default_Unknown == "Unknown"

\* impl Default for Environment
Environment_default == "Production"

\* GlobPatternSet::default: no pattern
GlobPatternSet_default == {}

RECURSIVE glob_match(_, _)
\* one pattern against the whole text: "*" takes any run of characters
glob_match(pattern, text) ==
    IF pattern = <<>> THEN text = <<>>
    ELSE IF pattern[1] = "*"
         THEN \/ glob_match(Tail(pattern), text)
              \/ text # <<>> /\ glob_match(pattern, Tail(text))
    ELSE /\ text # <<>>
         /\ text[1] = pattern[1]
         /\ glob_match(Tail(pattern), Tail(text))

\* GlobPatternSet::is_match
is_match(patterns, text) == \E pattern \in patterns : glob_match(pattern, text)

\* Deserialize for Service: #[serde(default)] on environment and authorities
Service_deserialize(json) ==
    [id |-> "svc1",
     environment |-> IF json.environment = None THEN Environment_default
                     ELSE Environment_deserialize(json.environment[1]),
     token |-> "secret1",
     authorities |-> IF json.authorities = None THEN GlobPatternSet_default
                     ELSE json.authorities[1]]

\* Service::environment
Service_environment(self) == Environment_as_str(self.environment)

\* Service::match_authority taking "no authorities" as "no check required"
match_authority_EmptyMatchesAll(self, authority) ==
    self.authorities = {} \/ is_match(self.authorities, authority)

\* Service::match_authority
match_authority(self, authority) == is_match(self.authorities, authority)

(***************************************************************************)
(* The host: it creates the contexts, dispatches events one at a time,     *)
(* hands out correlation tokens and keeps the pending calls.               *)
(***************************************************************************)
NoEvent ==
    [event |-> "none", context |-> 0, ar_res |-> [ok |-> FALSE, ar |-> NoAuthRep],
     token |-> 0, headers |-> <<>>]

\* no context has seen an event yet
ContextsIdle ==
    /\ headers_status = [c \in Contexts |-> "none"]
    /\ branch = [c \in Contexts |-> "none"]
    /\ local_responses = [c \in Contexts |-> <<>>]
    /\ resumed = [c \in Contexts |-> 0]
    /\ request_headers = [c \in Contexts |-> <<>>]
    /\ response_marker = [c \in Contexts |-> <<>>]
    /\ upstream_calls = [c \in Contexts |-> 0]
    /\ call_token = [c \in Contexts |-> None]
    /\ call_responses = [c \in Contexts |-> 0]
    /\ callouts = {}
    /\ next_token = 1
    /\ last = NoEvent

\* no service entry is being read
ServiceIdle ==
    /\ service_json = NoServiceJson
    /\ loaded_service = None
    /\ service_call = NoServiceCall

Init ==
    /\ configuration \in Configurations
    /\ ContextsIdle
    /\ ServiceIdle

\* The header event of context c: on_http_request_headers runs once, on the
\* resolution, build and dispatch results this request gets.
OnHttpRequestHeaders(c) ==
    /\ headers_status[c] = "none"
    /\ \E ar_res \in AuthRepResults :
         \E out \in { on_http_request_headers(configuration, ar_res, build_ok, call_res) :
                        build_ok \in BOOLEAN, call_res \in {None, Some(next_token)} } :
             /\ headers_status' = [headers_status EXCEPT ![c] = out.ret]
             /\ branch' = [branch EXCEPT ![c] = out.branch]
             /\ local_responses' = [local_responses EXCEPT ![c] = @ \o out.sent]
             /\ request_headers' = [request_headers EXCEPT ![c] = @ \o out.added]
             /\ upstream_calls' = [upstream_calls EXCEPT ![c] = @ + out.calls]
             /\ call_token' = [call_token EXCEPT ![c] = out.token]
             /\ callouts' = IF out.token # None
                            THEN callouts \cup { << out.token[1], c >> }
                            ELSE callouts
             /\ next_token' = IF out.token # None THEN next_token + 1 ELSE next_token
             /\ last' = [event |-> "request_headers", context |-> c,
                         ar_res |-> ar_res, token |-> 0, headers |-> <<>>]
    /\ UNCHANGED << configuration, resumed, response_marker, call_responses >>
    /\ UNCHANGED service_vars

\* What one on_http_call_response event, handed to context c, does.
CallResponseEvent(c, token_id, headers) ==
    LET out == on_http_call_response(c, token_id, headers)
        target == out.context
    IN  /\ resumed' = [resumed EXCEPT ![target] = @ + out.resumes]
        /\ local_responses' = [local_responses EXCEPT ![target] = @ \o out.sent]
        /\ call_responses' = [call_responses EXCEPT ![c] = @ + 1]
        /\ last' = [event |-> "call_response", context |-> c,
                    ar_res |-> NoEvent.ar_res, token |-> token_id,
                    headers |-> headers]

\* The response of a pending call arrives: the host drops the callout and
\* hands the event to the context that made the call.
OnHttpCallResponse(c) ==
    /\ \E co \in callouts, headers \in ResponseHeaderLists :
         /\ co[2] = c
         /\ callouts' = callouts \ {co}
         /\ CallResponseEvent(c, co[1], headers)
    /\ UNCHANGED << configuration, headers_status, branch, request_headers,
                    response_marker, upstream_calls, call_token, next_token >>
    /\ UNCHANGED service_vars

\* Response headers travel back to the caller once the request was let
\* through or answered locally: on_http_response_headers runs once.
OnHttpResponseHeaders(c) ==
    /\ \/ headers_status[c] = "Continue"
       \/ resumed[c] > 0
       \/ local_responses[c] # <<>>
    /\ response_marker[c] = <<>>
    /\ response_marker' = [response_marker EXCEPT
                             ![c] = Append(@, on_http_response_headers)]
    /\ last' = [event |-> "response_headers", context |-> c,
                ar_res |-> NoEvent.ar_res, token |-> 0, headers |-> <<>>]
    /\ UNCHANGED << configuration, headers_status, branch, local_responses, resumed,
                    request_headers, upstream_calls, call_token, call_responses,
                    callouts, next_token >>
    /\ UNCHANGED service_vars

Next ==
    \E c \in Contexts :
        \/ OnHttpRequestHeaders(c)
        \/ OnHttpCallResponse(c)
        \/ OnHttpResponseHeaders(c)

Spec == Init /\ [][Next]_vars

\* The host answers every call it accepted: with the backend's response or,
\* at its own timeout, with an event that carries no headers.
SpecLive == Spec /\ \A c \in Contexts : WF_vars(OnHttpCallResponse(c))

\* A host that hands a context a further call-response event after the
\* first one: the token of the first again, or any token handed out so far.
OnHttpCallResponseAgain(c) ==
    /\ call_responses[c] >= 1
    /\ call_responses[c] < MaxCallResponses
    /\ \E token_id \in 1..(next_token - 1), headers \in ResponseHeaderLists :
         CallResponseEvent(c, token_id, headers)
    /\ UNCHANGED << configuration, headers_status, branch, request_headers,
                    response_marker, upstream_calls, call_token, callouts,
                    next_token >>
    /\ UNCHANGED service_vars

NextRedelivery ==
    \E c \in Contexts :
        \/ OnHttpRequestHeaders(c)
        \/ OnHttpCallResponse(c)
        \/ OnHttpResponseHeaders(c)
        \/ OnHttpCallResponseAgain(c)

SpecRedelivery == Init /\ [][NextRedelivery]_vars

(***************************************************************************)
(* Reading one service entry and calling its accessors.                    *)
(***************************************************************************)
InitService ==
    /\ configuration = [backend |-> None, passthrough_metadata |-> None]
    /\ ContextsIdle
    /\ service_json \in ServiceJsons
    /\ loaded_service = None
    /\ service_call = NoServiceCall

DeserializeService ==
    /\ loaded_service = None
    /\ loaded_service' = Some(Service_deserialize(service_json))
    /\ UNCHANGED << service_json, service_call, lifecycle_vars >>

CallEnvironment ==
    /\ loaded_service # None
    /\ service_call' = [call |-> "environment", authority |-> <<>>,
                        matched |-> FALSE,
                        text |-> Service_environment(loaded_service[1])]
    /\ UNCHANGED << service_json, loaded_service, lifecycle_vars >>

CallMatchAuthority ==
    /\ loaded_service # None
    /\ \E authority \in AuthorityTexts :
         service_call' = [call |-> "match_authority", authority |-> authority,
                          matched |-> match_authority(loaded_service[1], authority),
                          text |-> ""]
    /\ UNCHANGED << service_json, loaded_service, lifecycle_vars >>

NextService == DeserializeService \/ CallEnvironment \/ CallMatchAuthority

SpecService == InitService /\ [][NextService]_vars

(***************************************************************************)
(* Vocabulary of the properties.                                           *)
(***************************************************************************)
\* the rejection the specification fixes: 403, no headers, fixed plain body
ForbiddenResponse ==
    [status |-> 403, headers |-> <<>>, body |-> "Access forbidden.\n"]

PassthroughMode == configuration.passthrough_metadata = Some(TRUE)

\* the response carries a status line and it says 200
Status200(headers) ==
    \E i \in 1..Len(headers) :
        /\ headers[i] = << ":status", "200" >>
        /\ \A j \in 1..(i - 1) : headers[j][1] # ":status"

\* the original request went on towards its upstream
Forwarded(c) == headers_status[c] = "Continue" \/ resumed[c] > 0

Pending(c) == \E co \in callouts : co[2] = c

RejectedInHandler(c) ==
    branch[c] \in {"authrep_err", "metadata_err", "build_err", "dispatch_err",
                   "no_backend"}

\* C1: a dispatched call's response event yields exactly one verdict: a first
\* `:status` of 200 resumes the request once and sends nothing, anything else
\* sends one 403 and resumes nothing; no request is both resumed and rejected.
C1_OneVerdictPerResponse ==
    \A c \in Contexts :
        /\ ~(resumed[c] > 0 /\ local_responses[c] # <<>>)
        /\ call_token[c] # None =>
              /\ call_responses[c] <= 1
              /\ resumed[c] + Len(local_responses[c]) = call_responses[c]
        /\ (last.event = "call_response" /\ last.context = c) =>
              IF Status200(last.headers)
              THEN resumed[c] = 1 /\ local_responses[c] = <<>>
              ELSE resumed[c] = 0 /\ local_responses[c] = << ForbiddenResponse >>

C1_Witness ==
    \E c, d \in Contexts :
        /\ last.event = "call_response" /\ last.context = c
        /\ Status200(last.headers) /\ resumed[c] = 1
        /\ call_token[d] # None /\ call_responses[d] = 1
        /\ local_responses[d] = << ForbiddenResponse >>

\* C2: when authrep::authrep fails, the request gets exactly one 403 with the
\* fixed body, upstream.call is never invoked and no metadata is attached.
C2_ResolutionFailureRejects ==
    /\ (last.event = "request_headers" /\ ~last.ar_res.ok) =>
          branch[last.context] = "authrep_err"
    /\ \A c \in Contexts :
          branch[c] = "authrep_err" =>
              /\ local_responses[c] = << ForbiddenResponse >>
              /\ headers_status[c] = "StopIteration"
              /\ upstream_calls[c] = 0
              /\ call_token[c] = None
              /\ ~Pending(c)
              /\ request_headers[c] = <<>>
              /\ resumed[c] = 0

C2_Witness ==
    /\ last.event = "response_headers"
    /\ branch[last.context] = "authrep_err"
    /\ PassthroughMode
    /\ configuration.backend # None

\* C3: outside passthrough mode the request is never continued by the header
\* handler, and it becomes forwarded only in the step that handles the
\* response, with a first `:status` of 200, of the call dispatched for it;
\* a request rejected in the header handler is never forwarded.
C3_ForwardedOnlyAfter200 ==
    [][ \A c \in Contexts :
          ~PassthroughMode =>
             /\ headers_status'[c] # "Continue"
             /\ (resumed'[c] > resumed[c]) =>
                   /\ branch[c] = "dispatched"
                   /\ upstream_calls[c] = 1
                   /\ call_token[c] # None
                   /\ << call_token[c][1], c >> \in callouts
                   /\ last'.event = "call_response"
                   /\ last'.context = c
                   /\ last'.token = call_token[c][1]
                   /\ Status200(last'.headers)
             /\ RejectedInHandler(c) => ~Forwarded(c)' ]_vars

C3_Witness ==
    \E c \in Contexts :
        /\ configuration.passthrough_metadata = None
        /\ resumed[c] = 1
        /\ branch[c] = "dispatched"
        /\ call_responses[c] = 1

\* C4: with no backend configured every handled request is rejected with one
\* 403 and upstream.call is never invoked, in passthrough mode or not.
C4_NoBackendAlwaysForbidden ==
    configuration.backend = None =>
        \A c \in Contexts :
            /\ upstream_calls[c] = 0
            /\ call_token[c] = None
            /\ ~Forwarded(c)
            /\ headers_status[c] # "none" =>
                  /\ headers_status[c] = "StopIteration"
                  /\ local_responses[c] = << ForbiddenResponse >>

C4_Witness ==
    /\ configuration.backend = None
    /\ last.event = "request_headers"
    /\ last.ar_res.ok
    /\ last.ar_res.ar.apps # <<>>
    /\ branch[last.context] = "no_backend"

\* C5: when upstream.call returns Err the handler sends one 403 and returns
\* StopIteration; the request holds no token, no call is pending for it, no
\* response event reaches it and it is never resumed.
C5_DispatchFailureRejects ==
    \A c \in Contexts :
        branch[c] = "dispatch_err" =>
            /\ headers_status[c] = "StopIteration"
            /\ local_responses[c] = << ForbiddenResponse >>
            /\ upstream_calls[c] = 1
            /\ call_token[c] = None
            /\ ~Pending(c)
            /\ call_responses[c] = 0
            /\ resumed[c] = 0

C5_Witness ==
    \E c, d \in Contexts :
        /\ branch[c] = "dispatch_err"
        /\ c # d
        /\ last.event = "call_response" /\ last.context = d
        /\ resumed[d] = 1

\* C6: every rejection, at whichever site, is the same response (403, no
\* headers, the fixed body), sent once, and a rejected request is not forwarded.
C6_UniformRejection ==
    \A c \in Contexts :
        /\ \A i \in 1..Len(local_responses[c]) :
              local_responses[c][i] = ForbiddenResponse
        /\ Len(local_responses[c]) <= 1
        /\ RejectedInHandler(c) => local_responses[c] = << ForbiddenResponse >>
        /\ (call_responses[c] = 1 /\ resumed[c] = 0) =>
              local_responses[c] = << ForbiddenResponse >>
        /\ local_responses[c] # <<>> => ~Forwarded(c)

C6_Witness ==
    \E c, d \in Contexts :
        /\ branch[c] = "build_err"
        /\ local_responses[c] = << ForbiddenResponse >>
        /\ last.event = "call_response" /\ last.context = d
        /\ last.headers = <<>>
        /\ local_responses[d] = << ForbiddenResponse >>

IdentityHeaderNames == {"x-3scale-app-id", "x-3scale-user-key"}

\* C7: in passthrough mode a request whose first resolved application is an
\* OAuthToken is rejected with a 403 and gets no identity header, nor any
\* header carrying the token.
C7_PassthroughRejectsOAuth ==
    ( /\ PassthroughMode
      /\ last.event = "request_headers"
      /\ last.ar_res.ok
      /\ last.ar_res.ar.apps # <<>>
      /\ last.ar_res.ar.apps[1].kind = "OAuthToken" ) =>
        LET c == last.context
        IN  /\ branch[c] = "metadata_err"
            /\ headers_status[c] = "StopIteration"
            /\ local_responses[c] = << ForbiddenResponse >>
            /\ \A i \in 1..Len(request_headers[c]) :
                  /\ request_headers[c][i][1] \notin IdentityHeaderNames
                  /\ request_headers[c][i][2] # last.ar_res.ar.apps[1].id

C7_Witness ==
    /\ PassthroughMode
    /\ configuration.backend # None
    /\ last.event = "request_headers"
    /\ last.ar_res.ok
    /\ last.ar_res.ar.apps = << OAuthTokenApp, AppIdWithKey >>
    /\ last.ar_res.ar.service.token # None
    /\ local_responses[last.context] = << ForbiddenResponse >>

\* C8: in passthrough mode no call is built or dispatched and no request
\* waits for a response: a handled request either continues with metadata
\* attached and no 403, or is stopped with one 403.
C8_PassthroughNeverDispatches ==
    PassthroughMode =>
        \A c \in Contexts :
            /\ upstream_calls[c] = 0
            /\ call_token[c] = None
            /\ ~Pending(c)
            /\ call_responses[c] = 0
            /\ resumed[c] = 0
            /\ branch[c] \in {"none", "authrep_err", "metadata_ok", "metadata_err"}
            /\ headers_status[c] # "none" =>
                  \/ /\ headers_status[c] = "Continue"
                     /\ branch[c] = "metadata_ok"
                     /\ local_responses[c] = <<>>
                     /\ request_headers[c] # <<>>
                  \/ /\ headers_status[c] = "StopIteration"
                     /\ branch[c] # "metadata_ok"
                     /\ local_responses[c] = << ForbiddenResponse >>

C8_Witness ==
    \E c, d \in Contexts :
        /\ PassthroughMode
        /\ configuration.backend # None
        /\ branch[c] = "metadata_ok"
        /\ branch[d] = "metadata_err"

\* C9: a lifecycle produces at most one verdict (resume or 403), also when a
\* further response event is handed to it after the first.
C9_AtMostOneVerdict ==
    \A c \in Contexts : resumed[c] + Len(local_responses[c]) <= 1

\* everything the filter and the host hold for one context
ContextState(c) ==
    << headers_status[c], branch[c], local_responses[c], resumed[c],
       request_headers[c], response_marker[c], upstream_calls[c], call_token[c],
       call_responses[c] >>

\* C10: an event changes the state of the context it is dispatched to and of
\* no other; a response event reaches the context that obtained its token at
\* dispatch, a token no other context holds, and that context's verdict
\* follows from the status of this response.
C10_LifecyclesIsolated ==
    [][ /\ \A c \in Contexts :
              c # last'.context => ContextState(c)' = ContextState(c)
        /\ last'.event = "call_response" =>
              LET c == last'.context
              IN  /\ call_token[c] = Some(last'.token)
                  /\ \A d \in Contexts \ {c} : call_token[d] # Some(last'.token)
                  /\ resumed'[c] =
                        resumed[c] + (IF Status200(last'.headers) THEN 1 ELSE 0)
                  /\ Len(local_responses'[c]) =
                        Len(local_responses[c])
                          + (IF Status200(last'.headers) THEN 0 ELSE 1) ]_vars

C10_Witness ==
    \E c, d \in Contexts :
        /\ last.event = "call_response" /\ last.context = c
        /\ resumed[c] = 1
        /\ Pending(d)
        /\ call_token[c][1] > call_token[d][1]

\* C11: no retries: a lifecycle invokes upstream.call at most once, a failed
\* build invokes it never, a failed dispatch or a handled response leaves no
\* call pending, and the host has issued exactly one token per dispatched
\* lifecycle; one response event concludes a dispatched lifecycle.
C11_NoRetries ==
    /\ next_token - 1 = Cardinality({ c \in Contexts : call_token[c] # None })
    /\ \A c \in Contexts :
          /\ upstream_calls[c] <= 1
          /\ call_responses[c] <= 1
          /\ Cardinality({ co \in callouts : co[2] = c }) <= 1
          /\ branch[c] = "build_err" => upstream_calls[c] = 0 /\ ~Pending(c)
          /\ branch[c] = "dispatch_err" => upstream_calls[c] = 1 /\ ~Pending(c)
          /\ call_responses[c] = 1 =>
                /\ upstream_calls[c] = 1
                /\ ~Pending(c)
                /\ resumed[c] + Len(local_responses[c]) = 1

C11_Witness ==
    \E c, d \in Contexts :
        /\ branch[c] = "dispatch_err"
        /\ upstream_calls[c] = 1
        /\ last.event = "call_response" /\ last.context = d
        /\ ~Status200(last.headers)
        /\ upstream_calls[d] = 1
        /\ local_responses[d] = << ForbiddenResponse >>

\* C13: a response-headers event sets `Powered-By: 3scale` on the response of
\* its context and returns Continue, however the request ended, and changes
\* nothing of the request side of any context nor of the host's calls.
C13_MarkerHeaderAdded ==
    [][ last'.event = "response_headers" =>
          /\ response_marker' =
                [response_marker EXCEPT ![last'.context] =
                    Append(@, [set |-> << "Powered-By", Some("3scale") >>,
                               ret |-> "Continue"])]
          /\ UNCHANGED << configuration, headers_status, branch, local_responses,
                          resumed, request_headers, upstream_calls, call_token,
                          call_responses, callouts, next_token >> ]_vars

C13_Witness ==
    \E c, d \in Contexts :
        /\ last.event = "response_headers" /\ last.context = c
        /\ local_responses[c] = << ForbiddenResponse >>
        /\ Len(response_marker[c]) = 1
        /\ resumed[d] = 1
        /\ Len(response_marker[d]) = 1

\* the names of the request headers added for context c, in order
AddedNames(c) == [i \in 1..Len(request_headers[c]) |-> request_headers[c][i][1]]

\* C14 as stated: a metadata failure leaves the request rejected with a 403
\* and without any added metadata header.
C14_AllOrNothing ==
    \A c \in Contexts :
        branch[c] = "metadata_err" =>
            /\ local_responses[c] = << ForbiddenResponse >>
            /\ request_headers[c] = <<>>

\* C14 amended: a metadata failure rejects the request with one 403 and never
\* forwards it; nothing was added when the applications are empty, the backend
\* is not configured or the first application is an OAuthToken; the identity,
\* cluster-name, upstream-url, timeout and service-id headers were added when
\* the service token is unavailable, and the service-token header too when the
\* usages do not encode; x-3scale-usages is never added on a failure.
C14_FailureRejectsPartialMetadata ==
    /\ \A c \in Contexts :
          branch[c] = "metadata_err" =>
              /\ local_responses[c] = << ForbiddenResponse >>
              /\ headers_status[c] = "StopIteration"
              /\ ~Forwarded(c)
              /\ \A i \in 1..Len(request_headers[c]) :
                    request_headers[c][i][1] # "x-3scale-usages"
    /\ (last.event = "request_headers" /\ PassthroughMode /\ last.ar_res.ok) =>
          LET c == last.context
              ar == last.ar_res.ar
              info == << "x-3scale-cluster-name", "x-3scale-upstream-url",
                         "x-3scale-timeout", "x-3scale-service-id" >>
          IN  IF \/ ar.apps = <<>>
                 \/ configuration.backend = None
                 \/ ar.apps[1].kind = "OAuthToken"
              THEN branch[c] = "metadata_err" /\ request_headers[c] = <<>>
              ELSE IF ar.service.token = None
              THEN /\ branch[c] = "metadata_err"
                   /\ Len(request_headers[c]) = 5
                   /\ request_headers[c][1][1] \in IdentityHeaderNames
                   /\ Tail(AddedNames(c)) = info
              ELSE IF ~ar.usages.encodable
              THEN /\ branch[c] = "metadata_err"
                   /\ Len(request_headers[c]) = 6
                   /\ request_headers[c][1][1] \in IdentityHeaderNames
                   /\ Tail(AddedNames(c)) = Append(info, "x-3scale-service-token")
              ELSE branch[c] = "metadata_ok"

C14_Witness ==
    /\ last.event = "request_headers"
    /\ PassthroughMode
    /\ last.ar_res.ok
    /\ last.ar_res.ar.apps = << UserKeyApp >>
    /\ last.ar_res.ar.service.token = None
    /\ branch[last.context] = "metadata_err"
    /\ Len(request_headers[last.context]) = 5
    /\ local_responses[last.context] = << ForbiddenResponse >>

\* how often a header of that name was added to the request of context c
AddedCount(c, name) ==
    Cardinality({ i \in 1..Len(request_headers[c]) : request_headers[c][i][1] = name })

\* the value added under that name (when it was added exactly once)
AddedValue(c, name) ==
    LET i == CHOOSE j \in 1..Len(request_headers[c]) : request_headers[c][j][1] = name
    IN  request_headers[c][i][2]

\* C15: a request that passthrough mode lets continue carries seven added
\* headers, each once: one identity header taken from the first application
\* (x-3scale-app-id: id or id:key, or x-3scale-user-key), the cluster name,
\* the upstream URL, the timeout in decimal, the service id, the service
\* token and the usages as a JSON object.
C15_CompleteMetadata ==
    /\ \A c \in Contexts :
          branch[c] = "metadata_ok" =>
              /\ headers_status[c] = "Continue"
              /\ Len(request_headers[c]) = 7
              /\ AddedCount(c, "x-3scale-app-id") + AddedCount(c, "x-3scale-user-key") = 1
              /\ \A name \in {"x-3scale-cluster-name", "x-3scale-upstream-url",
                              "x-3scale-timeout", "x-3scale-service-id",
                              "x-3scale-service-token", "x-3scale-usages"} :
                    AddedCount(c, name) = 1
              /\ AddedValue(c, "x-3scale-cluster-name") = "outbound|443||su1.3scale.net"
              /\ AddedValue(c, "x-3scale-upstream-url") = "https://su1.3scale.net"
              /\ AddedValue(c, "x-3scale-timeout") = "5000"
              /\ AddedValue(c, "x-3scale-service-id") = "svc1"
              /\ AddedValue(c, "x-3scale-service-token") = "secret1"
    /\ (last.event = "request_headers" /\ branch[last.context] = "metadata_ok") =>
          LET c == last.context
              first == last.ar_res.ar.apps[1]
              usages == last.ar_res.ar.usages.entries
          IN  /\ first = AppIdNoKey =>
                    request_headers[c][1] = << "x-3scale-app-id", "app1" >>
              /\ first = AppIdWithKey =>
                    request_headers[c][1] = << "x-3scale-app-id", "app1:key1" >>
              /\ first = UserKeyApp =>
                    request_headers[c][1] = << "x-3scale-user-key", "uk1" >>
              /\ first # OAuthTokenApp
              /\ usages = <<>> => AddedValue(c, "x-3scale-usages") = "{}"
              /\ usages = << <<"hits", 1>> >> =>
                    AddedValue(c, "x-3scale-usages") = "{\"hits\":1}"

C15_Witness ==
    \E d \in Contexts :
        /\ last.event = "request_headers"
        /\ branch[last.context] = "metadata_ok"
        /\ last.ar_res.ar.apps = << UserKeyApp, OAuthTokenApp >>
        /\ last.ar_res.ar.usages.entries # <<>>
        /\ d # last.context
        /\ branch[d] = "metadata_ok"
        /\ request_headers[d][1] = << "x-3scale-app-id", "app1:key1" >>

\* the three outcomes of the header handler
OutcomeRejected(c) ==
    /\ local_responses[c] = << ForbiddenResponse >>
    /\ call_token[c] = None
    /\ ~Pending(c)
    /\ headers_status[c] = "StopIteration"

OutcomeDispatched(c) ==
    /\ upstream_calls[c] = 1
    /\ call_token[c] # None
    /\ Cardinality({ co \in callouts : co[2] = c }) = 1
    /\ local_responses[c] = <<>>
    /\ headers_status[c] = "StopIteration"

OutcomeContinued(c) ==
    /\ request_headers[c] # <<>>
    /\ local_responses[c] = <<>>
    /\ upstream_calls[c] = 0
    /\ call_token[c] = None
    /\ headers_status[c] = "Continue"

\* C17: once on_http_request_headers has returned, and until a response
\* event is handled, exactly one outcome holds of the request: rejected,
\* dispatched or continued; a request with a pending call was sent no 403.
C17_ExclusiveOutcomes ==
    \A c \in Contexts :
        /\ Pending(c) => local_responses[c] = <<>>
        /\ (headers_status[c] # "none" /\ call_responses[c] = 0) =>
              Cardinality({ o \in {"a", "b", "c"} :
                              \/ o = "a" /\ OutcomeRejected(c)
                              \/ o = "b" /\ OutcomeDispatched(c)
                              \/ o = "c" /\ OutcomeContinued(c) }) = 1

C17_Witness ==
    \E c \in Contexts :
        /\ last.event = "request_headers"
        /\ OutcomeDispatched(last.context)
        /\ OutcomeRejected(c)
        /\ branch[c] = "build_err"

\* the value of the first header whose key is exactly `:status`, if any
FirstStatus(headers) ==
    LET at == { i \in 1..Len(headers) : headers[i][1] = ":status" }
    IN  IF at = {} THEN None
        ELSE Some(headers[CHOOSE i \in at : \A j \in at : i <= j][2])

\* C18: the verdict of a response event is a function of the first `:status`
\* header alone: the request is resumed iff that header exists with value
\* `200`, and any header list with the same first `:status` gets the same
\* verdict, whatever its other headers and whatever the token.
C18_VerdictFromFirstStatus ==
    last.event = "call_response" =>
        LET c == last.context
            first == FirstStatus(last.headers)
        IN  /\ resumed[c] = 1 <=> first = Some("200")
            /\ local_responses[c] = << ForbiddenResponse >> <=> first # Some("200")
            /\ \A other \in ResponseHeaderLists :
                  FirstStatus(other) = first => authorized(other) = (resumed[c] = 1)

C18_Witness ==
    \E d \in Contexts :
        /\ last.event = "call_response"
        /\ last.headers = << <<":status", "503">>, <<":status", "200">> >>
        /\ last.token = 2
        /\ resumed[last.context] = 0
        /\ d # last.context
        /\ resumed[d] = 1

\* the state of the lifecycle of context c, read off what the filter did
LifecycleState(c) ==
    CASE headers_status[c] = "none" -> "Start"
      [] /\ headers_status[c] = "Continue"
         /\ local_responses[c] = <<>> /\ resumed[c] = 0 /\ ~Pending(c)
           -> "Passthrough-Done"
      [] /\ headers_status[c] = "StopIteration"
         /\ local_responses[c] = << ForbiddenResponse >> /\ resumed[c] = 0
         /\ ~Pending(c)
           -> "Forbidden"
      [] /\ headers_status[c] = "StopIteration"
         /\ local_responses[c] = <<>> /\ resumed[c] = 0 /\ Pending(c)
           -> "AwaitingBackendResponse"
      [] /\ headers_status[c] = "StopIteration"
         /\ local_responses[c] = <<>> /\ resumed[c] = 1 /\ ~Pending(c)
           -> "Resumed"
      [] OTHER -> "Undefined"

\* Resolving lies inside on_http_request_headers: one event leads from Start
\* to the state the handler returns in.
LifecycleEdges ==
    { << "Start", "Forbidden" >>, << "Start", "Passthrough-Done" >>,
      << "Start", "AwaitingBackendResponse" >>,
      << "AwaitingBackendResponse", "Resumed" >>,
      << "AwaitingBackendResponse", "Forbidden" >> }

TerminalStates == {"Resumed", "Forbidden", "Passthrough-Done"}

\* C16: a lifecycle moves only along Start -> (Forbidden | Passthrough-Done |
\* AwaitingBackendResponse) -> (Resumed | Forbidden); a terminal state is
\* never left; and, the host answering every call it accepted, a lifecycle
\* whose header event was handled eventually is in a terminal state.
C16_LifecycleGraph ==
    /\ [][ \A c \in Contexts :
             \/ LifecycleState(c)' = LifecycleState(c)
             \/ << LifecycleState(c), LifecycleState(c)' >> \in LifecycleEdges ]_vars
    /\ \A c \in Contexts :
          (headers_status[c] # "none") ~> (LifecycleState(c) \in TerminalStates)

C16_Witness ==
    \E c, d \in Contexts :
        /\ LifecycleState(c) = "Resumed"
        /\ LifecycleState(d) = "AwaitingBackendResponse"
        /\ call_token[d][1] < call_token[c][1]

RecognizedEnvironments == {"production", "staging", "sandbox"}

\* C12 as stated: an entry whose environment is missing, or is none of
\* production, staging and sandbox, has the environment `production`.
C12_DefaultsToProduction ==
    ( /\ service_call.call = "environment"
      /\ \/ service_json.environment = None
         \/ service_json.environment[1] \notin RecognizedEnvironments ) =>
        /\ service_call.text = "production"
        /\ loaded_service[1].environment = "Production"

\* C12 amended: a missing environment is `production`; production, staging
\* and sandbox are themselves; any other value is `unknown`.
C12_EnvironmentOfEntry ==
    service_call.call = "environment" =>
        LET written == service_json.environment
        IN  service_call.text =
               IF written = None THEN "production"
               ELSE IF written[1] \in RecognizedEnvironments THEN written[1]
               ELSE "unknown"

C12_Witness ==
    /\ service_call.call = "environment"
    /\ service_json.environment = Some("Production")
    /\ service_call.text = "unknown"
    /\ loaded_service[1].environment = "Unknown"

\* the pattern matches the text in full: the text can be cut into one piece
\* per pattern element, a "*" taking any piece and a character itself
FullMatch(pattern, text) ==
    \E cut \in [0..Len(pattern) -> 0..Len(text)] :
        /\ cut[0] = 0
        /\ cut[Len(pattern)] = Len(text)
        /\ \A i \in 1..Len(pattern) :
              IF pattern[i] = "*" THEN cut[i] >= cut[i - 1]
              ELSE cut[i] = cut[i - 1] + 1 /\ text[cut[i]] = pattern[i]

\* C19: match_authority is true iff some pattern written in the entry's
\* authorities matches the authority in full; with the authorities missing
\* or empty it is false for every authority; the call leaves the Service as
\* it was deserialized.
C19_MatchAuthority ==
    service_call.call = "match_authority" =>
        LET written == IF service_json.authorities = None THEN {}
                       ELSE service_json.authorities[1]
        IN  /\ service_call.matched =
                  (\E pattern \in written : FullMatch(pattern, service_call.authority))
            /\ written = {} => ~service_call.matched
            /\ loaded_service # None
            /\ loaded_service[1].authorities = written
            /\ loaded_service[1].id = "svc1"
            /\ loaded_service[1].token = "secret1"

C19_Witness ==
    /\ service_call.call = "match_authority"
    /\ service_json.authorities = Some({ << "*", ".", "a" >>, << "b", ".", "a" >> })
    /\ service_call.authority = << "a", ".", "a" >>
    /\ service_call.matched

====
